---- MODULE Spec2Model ----
(***************************************************************************)
(* The transaction and connection coordination engine of hique            *)
(* (src/hique/engine.py) as a state machine.                               *)
(*                                                                         *)
(* Every asyncio task is an execution context with its own                 *)
(* TransactionState.  An engine call is cut at its suspension points: one  *)
(* action runs a call from its entry up to the first driver operation or   *)
(* contended lock, the next ones run from the completion of that           *)
(* operation to the following suspension point or to the return.  Driver   *)
(* operations (transaction start, commit, rollback, execute, release)      *)
(* may fail; acquiring a connection may fail.                              *)
(***************************************************************************)
EXTENDS Integers, Sequences, FiniteSets, TLC

\* ---------------------------------------------------------------- bounds
NumTasks == 2
MaxHandles == 2
MaxConns == 2
MaxDepth == 2
MaxNest == 1

\* Task objects and the addresses id() gives them (TaskLocalState).
NumTaskObjs == 3
NumAddrs == 2

Tasks == 1..NumTasks
Handles == 1..MaxHandles
Conns == 1..MaxConns

\* None: the Python value None of an Optional field.
None == 0
\* Unset: the attribute TransactionContext._connection was never assigned.
Unset == -1

VARIABLES
    state,      \* task -> its TransactionState (TaskLocalState.current)
    deques,     \* deque object -> the handles on it, bottom first
    locks,      \* asyncio.Lock object -> its holder followed by its waiters (FIFO)
    tc,         \* handle -> the fields of that TransactionContext
    released,   \* connection -> number of release() calls made on it (capped at 2)
    nconn,      \* number of connections handed out by Database.connection()
    pc,         \* task -> where its current engine call is suspended
    res,        \* the engine call that returned or raised in the last step, if one did
    frames      \* task -> the lenders of its in_context calls in progress

\* The registry of per-task states (src/hique/task_local_state.py) and the
\* asyncio tasks that use it.
VARIABLES
    life,       \* task object -> "unborn", "live", "done" (finished, done callbacks
                \*   scheduled), "over" (done callbacks run) or "freed" (collected)
    addr,       \* task object -> id(task), the address of the object
    states,     \* TaskLocalState._states: id(task) -> the state stored under it
    callbacks,  \* task object -> the _delete_state callbacks added to it
    got         \* task object -> the state its last access of `current` returned

\* The query handed to the query builder (src/hique/query.py) and what the
\* builder made of it (src/hique/pgbuilder.py).
VARIABLES
    query,      \* the Query object under construction
    out         \* the outcome of the last call made on it or with it

engine == <<state, deques, locks, tc, released, nconn, pc, res, frames>>

registry == <<life, addr, states, callbacks, got>>

\* The variables an engine call leaves alone.
builder == <<query, out>>

aside == <<registry, builder>>

vars == <<engine, aside>>

\* No call returned or raised in the step.
Quiet == [task |-> 0, op |-> "none", exc |-> "none"]

\* Where a call is suspended: `at` names the driver operation in progress
\* or the lock waited for, `op` the engine call, `h` its handle, `c` the
\* connection the driver operation runs on, `err` whether an exception is
\* pending, `rel` whether the call acquired connection c itself.
\* A task between engine calls:
Idle == [at |-> "idle", op |-> "none", h |-> 0, c |-> 0, err |-> FALSE, rel |-> FALSE]

\* TransactionState.new: a fresh lock, a fresh deque, no borrows, not
\* inherited, no connection.  Lock and deque objects are named by the task
\* whose state they were created for.
NewState(t) ==
    [lock |-> t, stack |-> t, borrows |-> 0, inherited |-> FALSE, connection |-> None]

\* TransactionContext.__init__: _completed False, _transaction None, and no
\* _connection attribute at all (the class only annotates it).
NewContext ==
    [created |-> TRUE, connection |-> Unset, transaction |-> "none", completed |-> FALSE]

NoContext ==
    [created |-> FALSE, connection |-> Unset, transaction |-> "none", completed |-> FALSE]

InitEngine ==
    /\ state = [t \in Tasks |-> NewState(t)]
    /\ deques = [d \in Tasks |-> <<>>]
    /\ locks = [l \in Tasks |-> <<>>]
    /\ tc = [h \in Handles |-> NoContext]
    /\ released = [c \in Conns |-> 0]
    /\ nconn = 0
    /\ pc = [t \in Tasks |-> Idle]
    /\ res = Quiet
    /\ frames = [t \in Tasks |-> <<>>]

TaskObjs == 1..NumTaskObjs

Addrs == 1..NumAddrs

\* TaskLocalState.__init__: an empty _states dict; no task exists yet.
InitRegistry ==
    /\ life = [k \in TaskObjs |-> "unborn"]
    /\ addr = [k \in TaskObjs |-> None]
    /\ states = [a \in Addrs |-> None]
    /\ callbacks = [k \in TaskObjs |-> 0]
    /\ got = [k \in TaskObjs |-> None]

\* No query has been made and no call has ended.
NoQuery == [kind |-> "none"]

NoOutput == [call |-> "none"]

InitBuilder ==
    /\ query = NoQuery
    /\ out = NoOutput

Init == InitEngine /\ InitRegistry /\ InitBuilder

\* ------------------------------------------------------------- helpers
Stack(t) == deques[state[t].stack]

Top(s) == s[Len(s)]

Pop(s) == SubSeq(s, 1, Len(s) - 1)

Raise(t, op, e) == res' = [task |-> t, op |-> op, exc |-> e] /\ UNCHANGED aside

Return(t, op) == res' = [task |-> t, op |-> op, exc |-> "ok"] /\ UNCHANGED aside

Goto(t, at, op, h, c, err, rel) ==
    pc' = [pc EXCEPT ![t] =
              [at |-> at, op |-> op, h |-> h, c |-> c, err |-> err, rel |-> rel]]

Continue == res' = Quiet /\ UNCHANGED aside

Done(t) == pc' = [pc EXCEPT ![t] = Idle]

\* asyncio.Lock: acquire() returns at once when the lock is free and nobody
\* waits, otherwise the caller queues; release() hands the lock to the first
\* waiter.  Acquired(lk, t): t is the holder of a lock whose queue is lk.
Acquire(lk, t) == Append(lk, t)

Acquired(lk, t) == lk # <<>> /\ Head(lk) = t

Release(lk) == Tail(lk)

\* One more release() call on connection c.
CountRelease(c) ==
    [released EXCEPT ![c] = IF @ < 2 THEN @ + 1 ELSE 2]

\* A commit or rollback sent to the driver on the transaction of a handle:
\* the first one is recorded by its kind, any further one as "multi".
Issued(old, kind) == IF old = "open" THEN kind ELSE "multi"

\* ------------------------------------------------- Engine.transaction
transaction(t) ==
    /\ pc[t] = Idle
    /\ UNCHANGED <<state, deques, locks, released, nconn, pc, frames>>
    /\ IF state[t].inherited \/ state[t].borrows > 0
         THEN Raise(t, "transaction", "RuntimeError") /\ UNCHANGED tc
         ELSE \E h \in Handles :
                /\ ~tc[h].created
                /\ \A g \in Handles : g < h => tc[g].created
                /\ tc' = [tc EXCEPT ![h] = NewContext]
                /\ Return(t, "transaction")

\* ------------------------------------- TransactionContext.__await__
\* Lines 58-63, up to the call of conn.transaction(): the connection of the
\* calling task's state is used, or one is acquired and recorded in the
\* state and in the handle (pc.rel then tells that this call acquired the
\* connection it runs on).  A handle is awaited until it has begun its
\* transaction, and not again after that.
Await(t, h) ==
    /\ pc[t] = Idle
    /\ tc[h].created
    /\ tc[h].transaction = "none"
    /\ Len(Stack(t)) < MaxDepth
    /\ UNCHANGED <<deques, locks, released, frames>>
    /\ IF state[t].connection = None
         THEN \/ /\ Raise(t, "await", "DriverError")
                 /\ UNCHANGED <<state, tc, nconn, pc>>
              \/ /\ nconn < MaxConns
                 /\ nconn' = nconn + 1
                 /\ state' = [state EXCEPT ![t].connection = nconn + 1]
                 /\ tc' = [tc EXCEPT ![h].connection = nconn + 1]
                 /\ Goto(t, "begin_txn", "await", h, nconn + 1, FALSE, TRUE)
                 /\ Continue
         ELSE /\ Goto(t, "begin_txn", "await", h, state[t].connection, FALSE, FALSE)
              /\ Continue
              /\ UNCHANGED <<state, tc, nconn>>

\* Lines 63-65: conn.transaction() has returned or raised.
AwaitResume(t) ==
    /\ pc[t].at = "begin_txn"
    /\ Done(t)
    /\ UNCHANGED <<state, locks, released, nconn, frames>>
    /\ \E ok \in BOOLEAN :
         IF ok
           THEN /\ tc' = [tc EXCEPT ![pc[t].h].transaction = "open"]
                /\ deques' = [deques EXCEPT ![state[t].stack] = Append(@, pc[t].h)]
                /\ Return(t, "await")
           ELSE /\ Raise(t, "await", "DriverError")
                /\ UNCHANGED <<tc, deques>>

\* ---------------------------------- TransactionContext._check_state
\* _check_state without its test of the borrow count.
CheckStateBorrowed(t, h) ==
    IF Stack(t) = <<>> THEN "IndexError"
    ELSE IF Top(Stack(t)) # h THEN "RuntimeError"
    ELSE IF tc[h].connection = Unset THEN "AttributeError"
    ELSE IF tc[h].connection # state[t].connection THEN "RuntimeError"
    ELSE "ok"

\* _check_state without its test of the handle's place on the stack.
CheckStateAnyOrder(t, h) ==
    IF state[t].borrows > 0 THEN "RuntimeError"
    ELSE IF Stack(t) = <<>> THEN "IndexError"
    ELSE IF tc[h].connection = Unset THEN "AttributeError"
    ELSE IF tc[h].connection # state[t].connection THEN "RuntimeError"
    ELSE "ok"

\* The exception _check_state raises for handle h in the state of the
\* calling task t, or "ok".  stack[-1] of an empty deque is an IndexError;
\* reading the _connection attribute that __await__ never assigned is an
\* AttributeError.
CheckState(t, h) ==
    IF state[t].borrows > 0 THEN "RuntimeError"
    ELSE IF Stack(t) = <<>> THEN "IndexError"
    ELSE IF Top(Stack(t)) # h THEN "RuntimeError"
    ELSE IF tc[h].connection = Unset THEN "AttributeError"
    ELSE IF tc[h].connection # state[t].connection THEN "RuntimeError"
    ELSE "ok"

\* The guard at the head of commit, rollback and __aexit__ (lines 94-97,
\* 105-108, 124-127).
Entry(t, h) ==
    IF tc[h].transaction = "none" THEN "RuntimeError" ELSE CheckState(t, h)

\* -------------------------------- TransactionContext._pop_transaction
\* _pop_transaction leaving the handle on the stack when the driver raised.
StackAfterPopKept(s, err) == IF err THEN s ELSE Pop(s)

\* Line 84: the deque after stack.pop(); the pop sits in a finally clause
\* and runs whether or not the driver raised (err).
StackAfterPop(s, err) == Pop(s)

\* Whether _pop_transaction releases the connection after its pop left the
\* deque as `rest` (line 86).
ReleaseAfterPop(rest) == rest = <<>>

\* Lines 80-89, run by task t for handle h with lock queue lk, `err` telling
\* whether an exception of the driver is pending: mark the handle completed,
\* pop the deque of the calling task's state, and when that empties it take
\* the lock and call release() on the handle's connection.
PopTransaction(t, h, op, lk, err) ==
    IF tc[h].connection = Unset
      THEN /\ Raise(t, op, "AttributeError")
           /\ Done(t)
           /\ locks' = [locks EXCEPT ![state[t].lock] = lk]
           /\ UNCHANGED <<tc, deques, released>>
      ELSE /\ tc' = [tc EXCEPT ![h].completed = TRUE]
           /\ IF Stack(t) = <<>>
                THEN /\ Raise(t, op, "IndexError")
                     /\ Done(t)
                     /\ locks' = [locks EXCEPT ![state[t].lock] = lk]
                     /\ UNCHANGED <<deques, released>>
                ELSE /\ deques' = [deques EXCEPT ![state[t].stack] = StackAfterPop(@, err)]
                     /\ IF ReleaseAfterPop(StackAfterPop(Stack(t), err))
                          THEN /\ locks' = [locks EXCEPT ![state[t].lock] = Acquire(lk, t)]
                               /\ IF Acquired(Acquire(lk, t), t)
                                    THEN /\ released' = CountRelease(tc[h].connection)
                                         /\ Goto(t, "pop_release", op, h,
                                                 tc[h].connection, err, FALSE)
                                    ELSE /\ Goto(t, "pop_lock", op, h, 0, err, FALSE)
                                         /\ UNCHANGED released
                               /\ Continue
                          ELSE /\ locks' = [locks EXCEPT ![state[t].lock] = lk]
                               /\ Done(t)
                               /\ IF err THEN Raise(t, op, "DriverError") ELSE Return(t, op)
                               /\ UNCHANGED released

\* Line 88: the lock has been handed to the waiting task; line 89 calls
\* release().
PopLock(t) ==
    /\ pc[t].at = "pop_lock"
    /\ Acquired(locks[state[t].lock], t)
    /\ released' = CountRelease(tc[pc[t].h].connection)
    /\ Goto(t, "pop_release", pc[t].op, pc[t].h, tc[pc[t].h].connection, pc[t].err, FALSE)
    /\ Continue
    /\ UNCHANGED <<state, deques, locks, tc, nconn, frames>>

\* Lines 89-91: release() has returned or raised; the lock is given up and
\* the finally clause clears the connection of the calling task's state.
PopRelease(t) ==
    /\ pc[t].at = "pop_release"
    /\ locks' = [locks EXCEPT ![state[t].lock] = Release(@)]
    /\ state' = [state EXCEPT ![t].connection = None]
    /\ Done(t)
    /\ \E ok \in BOOLEAN :
         IF ok /\ ~pc[t].err THEN Return(t, pc[t].op) ELSE Raise(t, pc[t].op, "DriverError")
    /\ UNCHANGED <<deques, tc, released, nconn, frames>>

\* ------------------------------- commit, rollback, __aexit__
\* Lines 99-100, 110-111, 130-134: take the lock of the calling task's
\* state and send `kind` (commit or rollback) to the driver.
Finalize(t, h, op, kind) ==
    /\ locks' = [locks EXCEPT ![state[t].lock] = Acquire(@, t)]
    /\ IF Acquired(Acquire(locks[state[t].lock], t), t)
         THEN /\ tc' = [tc EXCEPT ![h].transaction = Issued(@, kind)]
              /\ Goto(t, kind, op, h, tc[h].connection, FALSE, FALSE)
         ELSE /\ Goto(t, "lock_" \o kind, op, h, 0, FALSE, FALSE)
              /\ UNCHANGED tc
    /\ Continue
    /\ UNCHANGED <<state, deques, released, nconn, frames>>

commit(t, h) ==
    /\ pc[t] = Idle
    /\ tc[h].created
    /\ IF Entry(t, h) # "ok"
         THEN /\ Raise(t, "commit", Entry(t, h))
              /\ UNCHANGED <<state, deques, locks, tc, released, nconn, pc, frames>>
         ELSE Finalize(t, h, "commit", "commit")

rollback(t, h) ==
    /\ pc[t] = Idle
    /\ tc[h].created
    /\ IF Entry(t, h) # "ok"
         THEN /\ Raise(t, "rollback", Entry(t, h))
              /\ UNCHANGED <<state, deques, locks, tc, released, nconn, pc, frames>>
         ELSE Finalize(t, h, "rollback", "rollback")

\* __aexit__ (lines 118-136); exc tells whether the block raised.
aexit(t, h, exc) ==
    /\ pc[t] = Idle
    /\ tc[h].created
    /\ IF Entry(t, h) # "ok"
         THEN /\ Raise(t, "aexit", Entry(t, h))
              /\ UNCHANGED <<state, deques, locks, tc, released, nconn, pc, frames>>
         ELSE IF tc[h].completed
           THEN /\ PopTransaction(t, h, "aexit", locks[state[t].lock], FALSE)
                /\ UNCHANGED <<state, nconn, frames>>
           ELSE Finalize(t, h, "aexit", IF exc THEN "rollback" ELSE "commit")

\* The lock has been handed to the task waiting to commit or roll back.
FinalizeLock(t) ==
    /\ pc[t].at \in {"lock_commit", "lock_rollback"}
    /\ Acquired(locks[state[t].lock], t)
    /\ LET kind == IF pc[t].at = "lock_commit" THEN "commit" ELSE "rollback" IN
         /\ tc' = [tc EXCEPT ![pc[t].h].transaction = Issued(@, kind)]
         /\ Goto(t, kind, pc[t].op, pc[t].h, tc[pc[t].h].connection, FALSE, FALSE)
    /\ Continue
    /\ UNCHANGED <<state, deques, locks, released, nconn, frames>>

\* The driver's commit or rollback has returned or raised: the lock is
\* given up and the finally clause runs _pop_transaction.
FinalizeResume(t) ==
    /\ pc[t].at \in {"commit", "rollback"}
    /\ \E ok \in BOOLEAN :
         PopTransaction(t, pc[t].h, pc[t].op, Release(locks[state[t].lock]), ~ok)
    /\ UNCHANGED <<state, nconn, frames>>

\* ------------------------------------------------------ Engine.execute
\* execute releasing the connection it ran on whoever acquired it.
ReleaseFlagAlways(conn) == TRUE

\* Lines 165-169: execute releases the connection it runs on exactly when it
\* acquired that connection itself.
ReleaseFlag(conn) == conn = None

\* execute taking its connection from the pool before it compiles the query.
TakenBeforeCompileEager(conn) == IF conn = None THEN 1 ELSE 0

\* Lines 159-164: the connections execute has taken from the pool by the
\* time the query builder runs on a Query (conn: the connection of the
\* calling task's state); the builder is called first, so none.
TakenBeforeCompile(conn) == 0

\* Lines 159-173, up to the call of conn.execute().  A Query is compiled by
\* the query builder, which may raise (NotImplementedError for an operator
\* or a query kind it cannot render); a str is taken as it is.  Then the
\* connection of the calling task's state is used, or one is acquired (and
\* not recorded in the state); then the lock of the state is taken.
execute(t) ==
    /\ pc[t] = Idle
    /\ UNCHANGED <<state, deques, tc, released, frames>>
    /\ \/ /\ nconn + TakenBeforeCompile(state[t].connection) <= MaxConns
          /\ nconn' = nconn + TakenBeforeCompile(state[t].connection)
          /\ Raise(t, "execute", "NotImplementedError")
          /\ UNCHANGED <<locks, pc>>
       \/ /\ state[t].connection = None
          /\ Raise(t, "execute", "DriverError")
          /\ UNCHANGED <<locks, nconn, pc>>
       \/ /\ state[t].connection = None => nconn < MaxConns
          /\ LET conn == IF state[t].connection = None
                           THEN nconn + 1 ELSE state[t].connection
                 lk == Acquire(locks[state[t].lock], t)
             IN  /\ nconn' = IF state[t].connection = None THEN nconn + 1 ELSE nconn
                 /\ locks' = [locks EXCEPT ![state[t].lock] = lk]
                 /\ Goto(t, IF Acquired(lk, t) THEN "execute" ELSE "lock_execute",
                         "execute", 0, conn, FALSE, ReleaseFlag(state[t].connection))
          /\ Continue

\* The lock has been handed to the task waiting to execute.
ExecuteLock(t) ==
    /\ pc[t].at = "lock_execute"
    /\ Acquired(locks[state[t].lock], t)
    /\ pc' = [pc EXCEPT ![t].at = "execute"]
    /\ Continue
    /\ UNCHANGED <<state, deques, locks, tc, released, nconn, frames>>

\* Lines 173-177: conn.execute() has returned or raised; the lock is given
\* up and the finally clause releases the connection when the flag is set.
ExecuteResume(t) ==
    /\ pc[t].at = "execute"
    /\ locks' = [locks EXCEPT ![state[t].lock] = Release(@)]
    /\ UNCHANGED <<state, deques, tc, nconn, frames>>
    /\ \E ok \in BOOLEAN :
         IF pc[t].rel
           THEN /\ released' = CountRelease(pc[t].c)
                /\ Goto(t, "execute_release", "execute", 0, pc[t].c, ~ok, TRUE)
                /\ Continue
           ELSE /\ Done(t)
                /\ IF ok THEN Return(t, "execute") ELSE Raise(t, "execute", "DriverError")
                /\ UNCHANGED released

\* Line 177: conn.release() has returned or raised.
ExecuteRelease(t) ==
    /\ pc[t].at = "execute_release"
    /\ Done(t)
    /\ \E ok \in BOOLEAN :
         IF ok /\ ~pc[t].err THEN Return(t, "execute") ELSE Raise(t, "execute", "DriverError")
    /\ UNCHANGED <<state, deques, locks, tc, released, nconn, frames>>

\* --------------------------------------------------- Engine.in_context
\* The states a task is handed to run under: those of the tasks numbered
\* below it (a task borrows from a task started before it).
Lenders(t) == {s \in Tasks : s < t}

\* Line 198 and line 202: the borrow count of the lender's state on entry
\* to and on exit from the borrowed awaitable (failed: it raised).
BorrowsOnEntry(n) == n + 1

\* in_context giving the borrow back only when the awaitable returned.
BorrowsOnExitLost(n, failed) == IF failed THEN n ELSE n - 1

BorrowsOnExit(n, failed) == n - 1

\* Lines 189-198: task t runs an awaitable under the state of task s.  The
\* state of t takes over the lock, the deque and the connection of s and is
\* marked inherited, then the borrow count of s goes up (after the field
\* assignments, so that s = t counts too).
in_context(t, s) ==
    /\ pc[t] = Idle
    /\ Len(frames[t]) < MaxNest
    /\ UNCHANGED <<deques, locks, tc, released, nconn, pc>>
    /\ IF state[t].connection # None
         THEN /\ Raise(t, "in_context", "RuntimeError")
              /\ UNCHANGED <<state, frames>>
         ELSE /\ LET mine == [state[t] EXCEPT !.lock = state[s].lock,
                                              !.inherited = TRUE,
                                              !.connection = state[s].connection,
                                              !.stack = state[s].stack]
                     st == [state EXCEPT ![t] = mine]
                 IN  state' = [st EXCEPT ![s].borrows = BorrowsOnEntry(@)]
              /\ frames' = [frames EXCEPT ![t] = Append(@, s)]
              /\ Continue

\* Lines 199-202: the awaitable has finished (failed: with an exception)
\* and the finally clause gives the borrow back.
InContextReturn(t) ==
    /\ pc[t] = Idle
    /\ frames[t] # <<>>
    /\ frames' = [frames EXCEPT ![t] = Pop(@)]
    /\ \E failed \in BOOLEAN :
         /\ state' = [state EXCEPT ![Top(frames[t])].borrows = BorrowsOnExit(@, failed)]
         /\ IF failed THEN Raise(t, "in_context", "Exception") ELSE Return(t, "in_context")
    /\ UNCHANGED <<deques, locks, tc, released, nconn, pc>>

Next ==
    \E t \in Tasks :
        \/ transaction(t)
        \/ AwaitResume(t)
        \/ PopLock(t)
        \/ PopRelease(t)
        \/ FinalizeLock(t)
        \/ FinalizeResume(t)
        \/ execute(t)
        \/ ExecuteLock(t)
        \/ ExecuteResume(t)
        \/ ExecuteRelease(t)
        \/ InContextReturn(t)
        \/ \E s \in Lenders(t) : in_context(t, s)
        \/ \E h \in Handles :
             \/ Await(t, h)
             \/ commit(t, h)
             \/ rollback(t, h)
             \/ \E exc \in BOOLEAN : aexit(t, h, exc)

Spec == Init /\ [][Next]_vars

\* One execution context on its own: the calls of a single task, which
\* never finds its lock taken and neither lends nor borrows a state.
Solo == CHOOSE t \in Tasks : \A u \in Tasks : t <= u

NextSolo ==
    \/ transaction(Solo)
    \/ AwaitResume(Solo)
    \/ PopRelease(Solo)
    \/ FinalizeResume(Solo)
    \/ execute(Solo)
    \/ ExecuteResume(Solo)
    \/ ExecuteRelease(Solo)
    \/ \E h \in Handles :
         \/ Await(Solo, h)
         \/ commit(Solo, h)
         \/ rollback(Solo, h)
         \/ \E exc \in BOOLEAN : aexit(Solo, h, exc)

SpecSolo == Init /\ [][NextSolo]_vars

\* ------------------------------------------------------------- claims
\* Task t began A and then B in its own state: A acquired the connection,
\* both transactions are open, the deque holds A below B.
OpenPair(t, A, B) ==
    /\ A # B
    /\ Stack(t) = <<A, B>>
    /\ state[t].stack = t
    /\ state[t].borrows = 0
    /\ ~state[t].inherited
    /\ state[t].connection \in Conns
    /\ tc[A].connection = state[t].connection
    /\ tc[A].transaction = "open"
    /\ tc[B].transaction = "open"

\* C1: in one context begin(outer); begin(inner); commit(inner);
\* commit(outer) completes without error: the inner commit is accepted and
\* sent to the driver, it leaves the outer handle on the stack and the
\* connection held and unreleased, and the outer commit releases the
\* connection exactly once, leaving the stack empty and the connection
\* reference cleared.
C1_NestedCommitsComplete ==
    [][\A t \in Tasks, A, B \in Handles :
         /\ (OpenPair(t, A, B) /\ commit(t, B)) => pc'[t].at = "commit"
         /\ (OpenPair(t, A, B) /\ pc[t].at = "commit" /\ pc[t].h = B
                /\ FinalizeResume(t))
              => /\ Stack(t)' = <<A>>
                 /\ state'[t].connection = state[t].connection
                 /\ released' = released
                 /\ pc'[t] = Idle
         /\ (Stack(t) = <<A>> /\ pc[t].at = "pop_release" /\ pc[t].h = A
                /\ PopRelease(t))
              => /\ Stack(t)' = <<>>
                 /\ state'[t].connection = None
                 /\ released'[pc[t].c] = 1
      ]_vars

\* Everything but the outcome of the last call.
NothingChanges == UNCHANGED <<state, deques, locks, tc, released, nconn, pc, frames>>

\* Handle A lies on the stack of task t's state below its topmost handle B.
Below(t, A, B) ==
    /\ A # B
    /\ Stack(t) # <<>>
    /\ Top(Stack(t)) = B
    /\ \E i \in 1..(Len(Stack(t)) - 1) : Stack(t)[i] = A

\* C2: with handles A and then B open in one context, commit(A) and
\* rollback(A) raise the transaction-state error (RuntimeError) while B is
\* on the stack, and change nothing: the stack, the connection, the
\* release counts and both transactions stay as they are and no driver
\* operation is started.
C2_OutOfOrderRejected ==
    [][\A t \in Tasks, A, B \in Handles :
         (Below(t, A, B) /\ (commit(t, A) \/ rollback(t, A)))
           => /\ res'.task = t
              /\ res'.exc = "RuntimeError"
              /\ NothingChanges
      ]_vars

\* A context with A below B whose commit(A) has just been refused.
C2_Witness ==
    \E t \in Tasks, A, B \in Handles :
       /\ OpenPair(t, A, B)
       /\ tc[B].connection = Unset
       /\ pc[t] = Idle
       /\ res = [task |-> t, op |-> "commit", exc |-> "RuntimeError"]

\* C3: over the begin, commit, rollback and execute calls of a context,
\* with driver operations failing at will, no connection is released more
\* than once, and _pop_transaction calls release() only in the step that
\* empties the transaction stack.
C3_ReleasedOnceOnUnwind ==
    [][\A c \in Conns :
         /\ released'[c] <= 1
         /\ \A t \in Tasks :
              (pc'[t].at = "pop_release" /\ pc'[t].c = c /\ released'[c] # released[c])
                => (Stack(t) # <<>> /\ Stack(t)' = <<>>)
      ]_vars

\* A transaction has unwound: its connection was released by
\* _pop_transaction and the call has returned.
C3_Witness ==
    \E t \in Tasks, c \in Conns :
       /\ released[c] = 1
       /\ res.task = t
       /\ res.op \in {"commit", "rollback", "aexit"}
       /\ res.exc = "ok"
       /\ Stack(t) = <<>>

\* C4: an engine call that fails after acquiring a connection has released
\* that connection when the error reaches the caller, and leaves no
\* connection reference in a state whose transaction stack is empty.
C4_FailedCallReleases ==
    [][\A t \in Tasks :
         (pc[t].rel /\ res'.task = t /\ res'.exc # "ok")
           => /\ released'[pc[t].c] = 1
              /\ (Stack(t)' = <<>> => state'[t].connection = None)
      ]_vars

\* C9: execute() in a context without a connection acquires one connection,
\* runs the statement on it and releases it once before it returns, whether
\* the statement succeeds or raises, and leaves the context's stack and
\* connection reference as they were; execute() in a context that holds a
\* connection runs on that connection and acquires and releases none.
C9_ExecuteOneShot ==
    [][\A t \in Tasks :
         /\ (execute(t) /\ pc'[t].op = "execute")
              => /\ pc'[t].rel = (state[t].connection = None)
                 /\ IF state[t].connection = None
                      THEN nconn' = nconn + 1 /\ pc'[t].c = nconn' /\ released'[nconn'] = 0
                      ELSE nconn' = nconn /\ pc'[t].c = state[t].connection
                 /\ released' = released
         /\ (pc[t].op = "execute" /\ pc[t].at = "execute")
              => /\ nconn' = nconn
                 /\ IF pc[t].rel
                      THEN /\ released' = [released EXCEPT ![pc[t].c] = 1]
                           /\ res'.task # t
                      ELSE released' = released
         /\ (pc[t].op = "execute" /\ pc[t].at = "execute_release")
              => (nconn' = nconn /\ released' = released)
         /\ (pc[t].op = "execute" /\ res'.task = t)
              => (pc[t].rel => released'[pc[t].c] = 1)
         /\ (pc[t].op = "execute" \/ pc'[t].op = "execute")
              => (state'[t] = state[t] /\ Stack(t)' = Stack(t))
      ]_vars

\* execute() has raised after running on a connection of its own, which it
\* released once, in a context that still holds no connection.
C9_Witness ==
    \E t \in Tasks, c \in Conns :
       /\ res = [task |-> t, op |-> "execute", exc |-> "DriverError"]
       /\ released[c] = 1
       /\ nconn = c
       /\ state[t].connection = None
       /\ Stack(t) = <<>>

\* C10: when the driver's commit or rollback of the topmost handle raises,
\* the handle is popped all the same; if that empties the stack the
\* connection is released under the state's lock and the connection
\* reference is cleared once release() is over, also when release() raises;
\* the call ends with the driver's error.
C10_PopOnDriverError ==
    [][\A t \in Tasks :
         /\ (pc[t].at \in {"commit", "rollback"} /\ Stack(t) # <<>>
               /\ Top(Stack(t)) = pc[t].h /\ FinalizeResume(t)
               /\ (pc'[t].err \/ res'.exc = "DriverError"))
              => /\ Stack(t)' = Pop(Stack(t))
                 /\ IF Stack(t)' = <<>>
                      THEN /\ pc'[t].at = "pop_release"
                           /\ pc'[t].c = state[t].connection
                           /\ Acquired(locks'[state[t].lock], t)
                           /\ released'[pc'[t].c] = released[pc'[t].c] + 1
                           /\ state'[t].connection = state[t].connection
                      ELSE res' = [task |-> t, op |-> pc[t].op, exc |-> "DriverError"]
         /\ (pc[t].at = "pop_release" /\ PopRelease(t))
              => /\ state'[t].connection = None
                 /\ locks'[state[t].lock] = Tail(locks[state[t].lock])
                 /\ res'.task = t
                 /\ (pc[t].err => res'.exc = "DriverError")
      ]_vars

\* A commit that the driver refused has popped its handle, released the
\* connection and cleared the reference, and ended with the driver's error.
C10_Witness ==
    \E t \in Tasks, h \in Handles :
       /\ res = [task |-> t, op |-> "commit", exc |-> "DriverError"]
       /\ tc[h].completed
       /\ tc[h].transaction = "commit"
       /\ released[tc[h].connection] = 1
       /\ Stack(t) = <<>>
       /\ state[t].connection = None

\* C5: no context that is marked inherited or whose borrow count is above
\* zero starts a transaction on the driver or pushes a handle onto a
\* transaction stack, however Engine.transaction(), the await of the
\* handle and in_context() are ordered.
C5_NoBeginWhileShared ==
    [][\A t \in Tasks :
         (\/ pc[t] = Idle /\ pc'[t].at = "begin_txn"
          \/ pc[t].at = "begin_txn" /\ res' = [task |-> t, op |-> "await", exc |-> "ok"])
           => (~state[t].inherited /\ state[t].borrows = 0)
      ]_vars

\* C6: while the borrow count of a state is above zero, commit(),
\* rollback() and __aexit__ on its topmost handle raise the
\* transaction-state error (RuntimeError) and change nothing: the handle
\* stays on the stack, no commit or rollback goes to the driver and the
\* connection is not released.
C6_LenderCannotFinalize ==
    [][\A t \in Tasks, h \in Handles :
         (/\ state[t].borrows > 0
          /\ Stack(t) # <<>>
          /\ Top(Stack(t)) = h
          /\ (commit(t, h) \/ rollback(t, h) \/ \E exc \in BOOLEAN : aexit(t, h, exc)))
           => /\ res'.task = t
              /\ res'.exc = "RuntimeError"
              /\ NothingChanges
      ]_vars

\* A lender whose commit of its own topmost handle, begun on the connection
\* it still holds, has just been refused because its state is lent out.
C6_Witness ==
    \E t \in Tasks, h \in Handles :
       /\ res = [task |-> t, op |-> "commit", exc |-> "RuntimeError"]
       /\ state[t].borrows > 0
       /\ Stack(t) = <<h>>
       /\ tc[h].connection = state[t].connection
       /\ tc[h].transaction = "open"

\* The in_context calls in progress on the state of task s: the frames, of
\* any task, that run an awaitable under it.
InProgress(s) ==
    {p \in Tasks \X (1..MaxNest) :
        p[2] <= Len(frames[p[1]]) /\ frames[p[1]][p[2]] = s}

\* C7: the borrow count of every TransactionState equals the number of
\* in_context() calls in progress on it: it goes up when the borrowed
\* awaitable starts, comes back down when the awaitable returns or raises,
\* stays put when in_context() refuses the call, and is never negative.
C7_BorrowCount ==
    \A s \in Tasks : state[s].borrows = Cardinality(InProgress(s))

\* A borrowed awaitable has just raised and the borrow has been given back.
C7_Witness ==
    \E t \in Tasks :
       /\ res = [task |-> t, op |-> "in_context", exc |-> "Exception"]
       /\ frames[t] = <<>>
       /\ state[t].inherited
       /\ \A s \in Tasks : state[s].borrows = 0

\* Task t has a driver operation in progress on connection c.
Busy(t, c) ==
    /\ pc[t].at \in {"begin_txn", "commit", "rollback", "pop_release",
                     "execute", "execute_release"}
    /\ pc[t].c = c

\* C8: at most one driver operation is in progress on a connection at any
\* instant, for every interleaving of a lender and its borrowers.
C8_SingleWriter ==
    \A c \in Conns : \A t1, t2 \in Tasks :
       (Busy(t1, c) /\ Busy(t2, c)) => t1 = t2

\* Handle h lies on the deque created for the state of task s, and no other
\* task's state uses that deque: the __await__ that pushed h ran in task s.
BegunBy(s, h) ==
    /\ \E i \in DOMAIN deques[s] : deques[s][i] = h
    /\ \A u \in Tasks : state[u].stack = s => u = s

\* C11: commit() or rollback() of a handle called in another task than the
\* one that began it raises the transaction-state error (RuntimeError) and
\* changes the stack and the connection of neither task, whether the
\* calling task has an empty stack or an open transaction of its own.
C11_ForeignRejected ==
    [][\A t, s \in Tasks, h \in Handles :
         (/\ t # s
          /\ BegunBy(s, h)
          /\ (commit(t, h) \/ rollback(t, h)))
           => /\ res'.task = t
              /\ res'.exc = "RuntimeError"
              /\ UNCHANGED <<state, deques>>
      ]_vars

\* C12: Engine.execute compiles a Query before it acquires a connection:
\* when the query builder raises, no connection has been taken from the
\* pool, no statement is in progress on the driver, no lock is held or
\* waited for, and the transaction state of the calling task (its stack,
\* its connection, its handles) is as it was.
C12_CompileBeforeAcquire ==
    [][\A t \in Tasks :
         (execute(t) /\ res'.exc = "NotImplementedError")
           => /\ res' = [task |-> t, op |-> "execute", exc |-> "NotImplementedError"]
              /\ nconn' = nconn
              /\ pc'[t] = Idle
              /\ NothingChanges
      ]_vars

\* The query builder has just raised in an execute() called by a task with
\* no connection, which would have taken one from the pool.
C12_Witness ==
    \E t \in Tasks :
       /\ res = [task |-> t, op |-> "execute", exc |-> "NotImplementedError"]
       /\ state[t].connection = None
       /\ nconn < MaxConns
       /\ pc[t] = Idle

\* ------------------------------------------------------ TaskLocalState
\* The asyncio tasks that use one TaskLocalState.  A task object is created
\* at an address no object in use has, runs, finishes (its done callbacks
\* are then scheduled, and run in a later step of the loop), and is
\* collected after that, which frees its address for a later task.  A
\* TransactionState object is named by the task whose access created it.
InUse(a) == \E k \in TaskObjs : life[k] \in {"live", "done", "over"} /\ addr[k] = a

\* asyncio.create_task: task object k comes to life at a free address.
create_task(k) ==
    /\ life[k] = "unborn"
    /\ \E a \in Addrs :
         /\ ~InUse(a)
         /\ addr' = [addr EXCEPT ![k] = a]
    /\ life' = [life EXCEPT ![k] = "live"]
    /\ UNCHANGED <<engine, builder, states, callbacks, got>>

\* _delete_state leaving the entry of the finished task in the registry.
DeletedNever(reg, a) == reg

\* Line 29: del self._states[id(task)].
Deleted(reg, a) == [reg EXCEPT ![a] = None]

\* Lines 16-26 in task k: the state stored under id(task) is returned; when
\* there is none, self._default() makes one, it is stored, and
\* _delete_state is added to the done callbacks of the task.
current(k) ==
    /\ life[k] = "live"
    /\ IF states[addr[k]] = None
         THEN /\ states' = [states EXCEPT ![addr[k]] = k]
              /\ callbacks' = [callbacks EXCEPT ![k] = @ + 1]
              /\ got' = [got EXCEPT ![k] = k]
         ELSE /\ got' = [got EXCEPT ![k] = states[addr[k]]]
              /\ UNCHANGED <<states, callbacks>>
    /\ UNCHANGED <<engine, builder, life, addr>>

\* Lines 17-19 outside of any task: asyncio.current_task() is None and
\* `current` raises RuntimeError; nothing is stored.
current_no_task == UNCHANGED vars

\* The coroutine of task k returns or raises: the task is done and its done
\* callbacks are scheduled.
finish(k) ==
    /\ life[k] = "live"
    /\ life' = [life EXCEPT ![k] = "done"]
    /\ UNCHANGED <<engine, builder, addr, states, callbacks, got>>

\* The loop runs the done callbacks of task k: _delete_state (lines 28-29)
\* once for each time it was added.
delete_state(k) ==
    /\ life[k] = "done"
    /\ life' = [life EXCEPT ![k] = "over"]
    /\ states' = IF callbacks[k] > 0 THEN Deleted(states, addr[k]) ELSE states
    /\ callbacks' = [callbacks EXCEPT ![k] = 0]
    /\ UNCHANGED <<engine, builder, addr, got>>

\* Task object k is collected; a later task object may get its address.
collect(k) ==
    /\ life[k] = "over"
    /\ life' = [life EXCEPT ![k] = "freed"]
    /\ UNCHANGED <<engine, builder, addr, states, callbacks, got>>

NextTasks ==
    \/ current_no_task
    \/ \E k \in TaskObjs :
         \/ create_task(k)
         \/ current(k)
         \/ finish(k)
         \/ delete_state(k)
         \/ collect(k)

SpecTasks == Init /\ [][NextTasks]_vars

Absent == "None"

NoExpr == [none |-> TRUE]

\* The entity classes of the schema: three Model subclasses and two classes
\* made by alias(User, "u") (base.py lines 84-89: a subclass of cls with the
\* table name of cls and the given __alias__).
Classes == {"User", "Order", "Item", "U1", "U2"}

AliasClasses == {"U1", "U2"}

Base(c) == IF c \in AliasClasses THEN "User" ELSE c

issubclass(c, d) == c = d \/ Base(c) = d

\* ModelMeta.__new__ (base.py lines 42-50): the table name is the lowered
\* class name and the alias is the table name, unless the class sets them.
table_name(c) ==
    CASE Base(c) = "User" -> "user"
      [] Base(c) = "Order" -> "order"
      [] Base(c) = "Item" -> "item"

alias_name(c) == IF c \in AliasClasses THEN "u" ELSE table_name(c)

\* Expr.__init__ (expr.py lines 14-16); __alias__ is None until alias().
Expr(op, args) == [op |-> op, args |-> args, alias |-> Absent]

\* FieldExpr.__init__ (base.py lines 96-99): the expression a field
\* descriptor gives when it is read on class c.
FieldExpr(c, attr) ==
    [op |-> "field", args |-> <<>>, alias |-> Absent, table |-> c, attr |-> attr]

\* Literal.__init__ (expr.py lines 165-166).
Literal(value) == Expr("literal", <<value>>)

\* A value that is no Expr: a scalar argument of the statement.
Scalar(v) == [scalar |-> v]

IsExpr(e) == "op" \in DOMAIN e

IsFieldExpr(e) == IsExpr(e) /\ e.op = "field"

\* Expr.alias (expr.py lines 18-23) without a table.
alias(e, name) == [e EXCEPT !.alias = name]

\* Field.__init__ and __set_name__ (base.py lines 133-161): the descriptor
\* of a field declared under attr_name, its column name defaulting to the
\* attribute name.
Field(attr_name, primary_key, references, expr) ==
    [attr_name |-> attr_name, name |-> attr_name, primary_key |-> primary_key,
     references |-> references, expr |-> expr]

\* __fields__ of the classes, in declaration order (an alias class inherits
\* the fields of its base).  User.next_age is computed: age + 1.  Order has
\* two fields that reference User, Item one field that references Order.
fields(c) ==
    CASE Base(c) = "User" ->
           << Field("id", TRUE, NoExpr, NoExpr),
              Field("age", FALSE, NoExpr, NoExpr),
              Field("next_age", FALSE, NoExpr,
                    Expr("add", <<FieldExpr("User", "age"), Scalar(1)>>)) >>
      [] Base(c) = "Order" ->
           << Field("id", TRUE, NoExpr, NoExpr),
              Field("user_id", FALSE, FieldExpr("User", "id"), NoExpr),
              Field("buyer_id", FALSE, FieldExpr("User", "id"), NoExpr) >>
      [] Base(c) = "Item" ->
           << Field("id", TRUE, NoExpr, NoExpr),
              Field("order_id", FALSE, FieldExpr("Order", "id"), NoExpr) >>

\* The descriptor behind a field expression.
descriptor(e) ==
    LET fs == fields(e.table)
        i == CHOOSE i \in DOMAIN fs : fs[i].attr_name = e.attr
    IN  fs[i]

\* ------------------------------------------ PostgresqlQueryBuilder
\* The tiers of the precedence table (pgbuilder.py lines 26-38), tightest
\* first; the tier {None} is the one of every operator the table lacks.
precedence ==
    << {"field", "literal", "arg", "call"},
       {"pos", "neg"},
       {"mul", "div", "mod"},
       {"add", "sub"},
       {"is_null"},
       {"is_not_null"},
       {Absent},
       {"lt", "gt", "eq", "le", "ge", "ne"},
       {"invert"},
       {"and"},
       {"or"} >>

\* __init__ (lines 41-45): the tier of each name of the table.
precedence_map(op_name) ==
    CHOOSE i \in DOMAIN precedence : op_name \in precedence[i]

InTable(op_name) == \E i \in DOMAIN precedence : op_name \in precedence[i]

\* get_precedence (lines 168-175).
get_precedence(expr) ==
    IF ~IsExpr(expr) THEN precedence_map("arg")
    ELSE IF InTable(expr.op) THEN precedence_map(expr.op)
    ELSE precedence_map(Absent)

\* quote (lines 177-182) of one part.
quote(part) == "\"" \o part \o "\""

\* SQL text is kept as the sequence of the pieces it is put together from;
\* Text gives the string.
RECURSIVE Text(_)
Text(pieces) == IF pieces = <<>> THEN "" ELSE Head(pieces) \o Text(Tail(pieces))

\* sep.join(items), every item a sequence of pieces.
RECURSIVE Joined(_, _)
Joined(items, sep) ==
    IF items = <<>> THEN <<>>
    ELSE IF Len(items) = 1 THEN items[1]
    ELSE items[1] \o <<sep>> \o Joined(Tail(items), sep)

\* A prefix, infix or suffix of emit_op; the empty string adds nothing.
Piece(s) == IF s = "" THEN <<>> ELSE <<s>>

\* Args.__call__ returning the index before it appends.
ArgsCallBefore(args, value) == [args |-> Append(args, value), index |-> Len(args)]

\* Args.__call__ (lines 17-19): append the value, return the new length.
ArgsCall(args, value) == [args |-> Append(args, value), index |-> Len(args) + 1]

\* emit_arg (lines 190-191).
emit_arg(value, args) ==
    LET a == ArgsCall(args, value.scalar)
    IN  [sql |-> <<"$" \o ToString(a.index)>>, args |-> a.args, exc |-> "ok"]

\* expr_emitter_map (lines 247-280): how each operator is rendered.
Op(prefix, infix, suffix) ==
    [how |-> "op", prefix |-> prefix, infix |-> infix, suffix |-> suffix]

Call(name) == [how |-> "call", name |-> name]

expr_emitter_map(op) ==
    CASE op = "literal" -> [how |-> "literal"]
      [] op = "field" -> [how |-> "field"]
      [] op = "lt" -> Op("", " < ", "")
      [] op = "le" -> Op("", " <= ", "")
      [] op = "eq" -> Op("", " = ", "")
      [] op = "ne" -> Op("", " <> ", "")
      [] op = "gt" -> Op("", " > ", "")
      [] op = "ge" -> Op("", " >= ", "")
      [] op = "neg" -> Op("-", "", "")
      [] op = "pos" -> Op("+", "", "")
      [] op = "abs" -> Call("abs")
      [] op = "invert" -> Op("NOT ", "", "")
      [] op = "add" -> Op("", " + ", "")
      [] op = "sub" -> Op("", " - ", "")
      [] op = "mul" -> Op("", " * ", "")
      [] op = "matmul" -> [how |-> "not_implemented"]
      [] op = "div" -> Op("", " / ", "")
      [] op = "floordiv" -> Call("div")
      [] op = "mod" -> Op("", " % ", "")
      [] op = "divmod" -> [how |-> "not_implemented"]
      [] op = "pow" -> Call("power")
      [] op = "lshift" -> Op("", " << ", "")
      [] op = "rshift" -> Op("", " >> ", "")
      [] op = "and" -> Op("", " AND ", "")
      [] op = "xor" -> Op("", " # ", "")
      [] op = "or" -> Op("", " OR ", "")
      [] op = "round" -> Call("round")
      [] op = "floor" -> Call("floor")
      [] op = "ceil" -> Call("ceil")
      [] op = "is_null" -> Op("", "", " IS NULL")
      [] op = "is_not_null" -> Op("", "", " IS NOT NULL")
      [] op = "call" -> [how |-> "call_expr"]
      [] OTHER -> [how |-> "none"]

RECURSIVE emit(_, _)

\* The operands of an expression emitted from left to right, each with the
\* argument list the one before it left.
RECURSIVE emit_each(_, _)
emit_each(exprs, args) ==
    IF exprs = <<>> THEN <<>>
    ELSE LET first == emit(Head(exprs), args)
         IN  <<first>> \o emit_each(Tail(exprs), first.args)

\* What a rendering of several operands gives: the text, the argument list
\* after the last operand, and the first exception one of them raised.
Emitted(sql, emitted, args) ==
    [sql |-> sql,
     args |-> IF emitted = <<>> THEN args ELSE emitted[Len(emitted)].args,
     exc |-> IF \A i \in DOMAIN emitted : emitted[i].exc = "ok" THEN "ok"
             ELSE "NotImplementedError"]

\* The test of line 238 also putting an operand of the operator's own tier
\* in parentheses.
ParenthesizedSameTier(precedence_, arg_precedence) == precedence_ <= arg_precedence

\* Line 238: an operand is put in parentheses when the tier of the operator
\* comes before (binds tighter than) the tier of the operand.
Parenthesized(precedence_, arg_precedence) == precedence_ < arg_precedence

\* emit_op (lines 223-242).
emit_op(expr, args, prefix, infix, suffix) ==
    LET emitted == emit_each(expr.args, args)
        arg_sql(i) ==
            IF Parenthesized(get_precedence(expr), get_precedence(expr.args[i]))
              THEN <<"(">> \o emitted[i].sql \o <<")">>
              ELSE emitted[i].sql
    IN  Emitted(Piece(prefix)
                  \o Joined([i \in DOMAIN emitted |-> arg_sql(i)], infix)
                  \o Piece(suffix),
                emitted, args)

\* emit_call (lines 206-217); schema is None for the operators rendered as
\* functions.
emit_call(schema, name, call_args, args) ==
    LET emitted == emit_each(call_args, args)
        f == IF schema # Absent THEN schema \o "." \o name ELSE name
    IN  Emitted(<<f, "(">> \o Joined([i \in DOMAIN emitted |-> emitted[i].sql], ", ")
                  \o <<")">>,
                emitted, args)

\* emit_field (lines 199-204): a computed field is rendered as its
\* expression, any other as "alias"."column".
emit_field(expr, args) ==
    IF descriptor(expr).expr # NoExpr
      THEN emit(descriptor(expr).expr, args)
      ELSE [sql |-> <<quote(alias_name(expr.table)) \o "." \o quote(descriptor(expr).name)>>,
            args |-> args, exc |-> "ok"]

\* emit_expr (lines 193-197) with the emitters of expr_emitter_map.
emit_expr(expr, args) ==
    LET f == expr_emitter_map(expr.op) IN
    CASE f.how = "literal" -> [sql |-> <<expr.args[1]>>, args |-> args, exc |-> "ok"]
      [] f.how = "field" -> emit_field(expr, args)
      [] f.how = "op" -> emit_op(expr, args, f.prefix, f.infix, f.suffix)
      [] f.how = "call" -> emit_call(Absent, f.name, expr.args, args)
      [] f.how = "call_expr" -> emit_call(expr.schema, expr.name, expr.args, args)
      [] OTHER -> [sql |-> <<>>, args |-> args, exc |-> "NotImplementedError"]

\* emit (lines 184-188).
emit(expr, args) ==
    IF IsExpr(expr) THEN emit_expr(expr, args) ELSE emit_arg(expr, args)

\* ------------------------------------------------------ query objects
JoinTypes == {"INNER", "LEFT", "RIGHT", "FULL", "CROSS"}

\* Join.__init__ (query.py lines 67-78); condition is None for a cross join.
Join(attr_name, dest, join_type, condition) ==
    [attr_name |-> attr_name, dest |-> dest, join_type |-> join_type,
     condition |-> condition]

\* BaseSelectQuery.__init__ (query.py lines 89-98) without values: _join is
\* a defaultdict(list), here the empty list under every class.
SelectQuery ==
    [kind |-> "select", values |-> <<>>, from |-> <<>>, filter |-> <<>>,
     join |-> [c \in Classes |-> <<>>], join_src |-> Absent]

\* InsertQuery.__init__ (query.py lines 315-318); values holds the keyword
\* arguments as <<column, value>> pairs in the order they were given.
InsertQuery(model, values) ==
    [kind |-> "insert", model |-> model, values |-> values, returning |-> <<>>]

\* The DeleteQuery that pgbuilder.delete reads (_model and _filter); the
\* class itself is imported from hique.query, which does not define it.
DeleteQuery(model, filter) ==
    [kind |-> "delete", model |-> model, filter |-> filter]

\* --------------------------------- PostgresqlQueryBuilder.select
\* Lines 90-98 and 140-148: a projection.  The alias of a field expression
\* is "<table alias>.<alias or column name>", that of any other expression
\* its own alias or None; with an alias the text is followed by AS.
projection_alias(value) ==
    IF IsFieldExpr(value)
      THEN alias_name(value.table) \o "."
             \o (IF value.alias # Absent THEN value.alias ELSE descriptor(value).name)
      ELSE value.alias

projection(value, args) ==
    LET e == emit(value, args) IN
    IF projection_alias(value) = Absent THEN e
    ELSE [e EXCEPT !.sql = @ \o <<" AS " \o quote(projection_alias(value))>>]

\* The projections, or the filters, rendered from left to right.
RECURSIVE projections(_, _)
projections(values, args) ==
    IF values = <<>> THEN <<>>
    ELSE LET first == projection(Head(values), args)
         IN  <<first>> \o projections(Tail(values), first.args)

\* Lines 64-76: the keyword of a join type.
join_keyword(join_type) ==
    CASE join_type = "INNER" -> "JOIN"
      [] join_type = "LEFT" -> "LEFT JOIN"
      [] join_type = "RIGHT" -> "RIGHT JOIN"
      [] join_type = "FULL" -> "FULL JOIN"
      [] join_type = "CROSS" -> "CROSS JOIN"

\* add_joins (lines 58-86): the items appended to `result` for the joins
\* that leave `model`, each followed by the items of the joins that leave
\* its destination.  `depth` counts the nested calls: a chain longer than
\* the number of classes runs round a cycle of the join graph, which in
\* Python ends in RecursionError.
RECURSIVE add_joins(_, _, _, _)
RECURSIVE add_join_list(_, _, _, _)

\* Lines 78-84: the condition of join j, rendered unless it is a cross join.
join_condition(j, args) ==
    IF j.join_type # "CROSS" THEN emit(j.condition, args)
    ELSE [sql |-> <<>>, args |-> args, exc |-> "ok"]

\* Lines 64-84: the items of join j itself, given its rendered condition.
join_items(j, cond) ==
    << <<join_keyword(j.join_type)>>, <<quote(table_name(j.dest))>> >>
      \o (IF alias_name(j.dest) # table_name(j.dest)
            THEN << <<"AS " \o quote(alias_name(j.dest))>> >> ELSE <<>>)
      \o (IF j.join_type # "CROSS" THEN << <<"ON">>, cond.sql >> ELSE <<>>)

\* The loop of line 63 after the first join, its nested joins (line 86), and
\* the joins after it have been rendered.
add_join_rest(j, cond, nested, rest) ==
    [items |-> join_items(j, cond) \o nested.items \o rest.items,
     args |-> rest.args,
     exc |-> rest.exc]

add_join_nested(join_map, joins, depth, cond, nested) ==
    IF nested.exc # "ok" THEN nested
    ELSE add_join_rest(Head(joins), cond, nested,
                       add_join_list(join_map, Tail(joins), nested.args, depth))

add_join_cond(join_map, joins, depth, cond) ==
    IF cond.exc # "ok" THEN [items |-> <<>>, args |-> cond.args, exc |-> cond.exc]
    ELSE add_join_nested(join_map, joins, depth, cond,
                         add_joins(join_map, Head(joins).dest, cond.args, depth + 1))

add_join_list(join_map, joins, args, depth) ==
    IF joins = <<>> THEN [items |-> <<>>, args |-> args, exc |-> "ok"]
    ELSE add_join_cond(join_map, joins, depth, join_condition(Head(joins), args))

add_joins(join_map, model, args, depth) ==
    IF depth > Cardinality(Classes)
      THEN [items |-> <<>>, args |-> args, exc |-> "RecursionError"]
      ELSE add_join_list(join_map, join_map[model], args, depth)

\* Line 104: the entry at place i of _from is rendered when no earlier place
\* holds the same class.
FirstSeen(from, i) == \A k \in 1..(i - 1) : from[k] # from[i]

\* Lines 105-110: the table of a FROM entry, with AS when its alias differs.
from_head(from_entry) ==
    << <<quote(table_name(from_entry))>> >>
      \o (IF quote(table_name(from_entry)) # quote(alias_name(from_entry))
            THEN << <<"AS " \o quote(alias_name(from_entry))>> >> ELSE <<>>)

\* Lines 100-117: the FROM clause, one comma-separated entry for each class
\* of _from seen for the first time, with the joins that leave it.
RECURSIVE from_entries(_, _, _)

from_rest(from_entry, joins, rest) ==
    [froms |-> <<Joined(from_head(from_entry) \o joins.items, " ")>> \o rest.froms,
     args |-> rest.args,
     exc |-> rest.exc]

from_joined(q, i, joins) ==
    IF joins.exc # "ok" THEN [froms |-> <<>>, args |-> joins.args, exc |-> joins.exc]
    ELSE from_rest(q.from[i], joins, from_entries(q, i + 1, joins.args))

from_entries(q, i, args) ==
    IF i > Len(q.from) THEN [froms |-> <<>>, args |-> args, exc |-> "ok"]
    ELSE IF ~FirstSeen(q.from, i) THEN from_entries(q, i + 1, args)
    ELSE from_joined(q, i, add_joins(q.join, q.from[i], args, 1))

\* The first exception among the parts of a statement, or "ok".
FirstExc(excs) ==
    IF \A i \in DOMAIN excs : excs[i] = "ok" THEN "ok"
    ELSE excs[CHOOSE i \in DOMAIN excs :
                  excs[i] # "ok" /\ \A k \in 1..(i - 1) : excs[k] = "ok"]

Excs(emitted) == [i \in DOMAIN emitted |-> emitted[i].exc]

ArgsAfter(emitted, args) == IF emitted = <<>> THEN args ELSE emitted[Len(emitted)].args

Sqls(emitted) == [i \in DOMAIN emitted |-> emitted[i].sql]

\* Lines 119-124 and 159-164: ' AND '.join of the rendered filters.
Where(filters) == Joined(filters, " AND ")

\* select (lines 57-126): the projections (88-98), then the FROM clause
\* (100-117), then the filters (119-124), then the statement (126).
select_sql(q, values, from, filter) ==
    [sql |-> <<"SELECT ">> \o Joined(Sqls(values), ", ")
               \o (IF q.from # <<>> THEN <<" FROM ">> \o Joined(from.froms, ", ") ELSE <<>>)
               \o (IF q.filter # <<>> THEN <<" WHERE ">> \o Where(Sqls(filter)) ELSE <<>>),
     args |-> ArgsAfter(filter, from.args),
     exc |-> FirstExc(Excs(values) \o <<from.exc>> \o Excs(filter))]

select_where(q, values, from) ==
    select_sql(q, values, from, emit_each(q.filter, from.args))

select_from(q, args, values) ==
    select_where(q, values, from_entries(q, 1, ArgsAfter(values, args)))

select(q, args) == select_from(q, args, projections(q.values, args))

\* Lines 129-131 and 155-157: the target of an insert or delete.
target(model) ==
    IF alias_name(model) # table_name(model)
      THEN <<quote(table_name(model)) \o " AS " \o quote(alias_name(model))>>
      ELSE <<quote(table_name(model))>>

\* insert (lines 128-152): the values (133-135), then RETURNING (137-150),
\* then the statement (152); zip(*items) of no values cannot be unpacked
\* (ValueError).
insert_sql(q, args, values, returning) ==
    [sql |-> <<"INSERT INTO ">> \o target(q.model) \o <<" (">>
               \o Joined([i \in DOMAIN q.values |-> <<quote(q.values[i][1])>>], ", ")
               \o <<") VALUES (">>
               \o Joined(Sqls(values), ", ") \o <<")">>
               \o (IF q.returning # <<>>
                     THEN <<" RETURNING ">> \o Joined(Sqls(returning), ", ")
                     ELSE <<>>),
     args |-> ArgsAfter(returning, ArgsAfter(values, args)),
     exc |-> FirstExc(Excs(values) \o Excs(returning))]

insert_returning(q, args, values) ==
    insert_sql(q, args, values, projections(q.returning, ArgsAfter(values, args)))

insert(q, args) ==
    IF q.values = <<>> THEN [sql |-> <<>>, args |-> args, exc |-> "ValueError"]
    ELSE insert_returning(q, args,
                          emit_each([i \in DOMAIN q.values |-> q.values[i][2]], args))

\* delete (lines 154-166): the filters, then the statement.
delete_sql(q, args, filter) ==
    [sql |-> <<"DELETE FROM ">> \o target(q.model)
               \o (IF q.filter # <<>> THEN <<" WHERE ">> \o Where(Sqls(filter)) ELSE <<>>),
     args |-> ArgsAfter(filter, args),
     exc |-> FirstExc(Excs(filter))]

delete(q, args) == delete_sql(q, args, emit_each(q.filter, args))

\* __call__ (lines 47-55): the statement and its arguments, with a fresh
\* Args.
Compile(q) ==
    CASE q.kind = "select" -> select(q, <<>>)
      [] q.kind = "insert" -> insert(q, <<>>)
      [] q.kind = "delete" -> delete(q, <<>>)
      [] OTHER -> [sql |-> <<>>, args |-> <<>>, exc |-> "NotImplementedError"]

\* ------------------------------------------------- building a query
\* How many projections, sources, filters and joins a query is given.
MaxValues == 1
MaxFrom == 2
MaxFilters == 2
MaxJoins == 1

\* The expressions the queries are made of.
Age == FieldExpr("User", "age")

Projections ==
    { FieldExpr("User", "id"),
      alias(FieldExpr("User", "id"), "x"),
      Expr("add", <<Age, Scalar(7)>>),
      alias(Expr("add", <<Age, Scalar(7)>>), "y"),
      FieldExpr("User", "next_age") }

Filters ==
    { Expr("or", <<Expr("eq", <<Age, Scalar(3)>>), Expr("gt", <<Age, Scalar(4)>>)>>),
      Expr("lt", <<Age, Scalar(5)>>) }

Conditions == { Expr("eq", <<FieldExpr("Order", "id"), Scalar(6)>>) }

Sources == {"User", "Order", "U1", "U2"}

Dests == {"User", "Order", "Item"}

InitialQueries ==
    {SelectQuery}
      \cup {InsertQuery(m, vs) :
              m \in {"User", "U1"},
              vs \in {<<>>, << <<"age", Scalar(1)>> >>,
                      << <<"age", Scalar(1)>>, <<"id", Scalar(2)>> >>}}
      \cup {DeleteQuery(m, fs) :
              m \in {"User", "U1"},
              fs \in {<<>>} \cup {<<f>> : f \in Filters}
                      \cup {<<f, g>> : f \in Filters, g \in Filters}}

InitBuild ==
    /\ InitEngine
    /\ InitRegistry
    /\ query \in InitialQueries
    /\ out = NoOutput

\* The outcome of a call that raised: which call and the exception.  A call
\* of the query that returns gives back the query itself (NoOutput).
Outcome(call, exc) == [call |-> call, exc |-> exc, sql |-> <<>>, args |-> <<>>]

\* BaseSelectQuery.select (query.py lines 100-107) with one expression.
select_value(value) ==
    /\ query.kind = "select"
    /\ Len(query.values) < MaxValues
    /\ query' = [query EXCEPT !.values = Append(@, value)]
    /\ out' = NoOutput
    /\ UNCHANGED <<engine, registry>>

\* BaseSelectQuery.filter (lines 109-111) with one expression.
filter(f) ==
    /\ query.kind = "select"
    /\ Len(query.filter) < MaxFilters
    /\ query' = [query EXCEPT !.filter = Append(@, f)]
    /\ out' = NoOutput
    /\ UNCHANGED <<engine, registry>>

\* SelectQuery.from_ (lines 197-204) with one source and replace False.
from_(source) ==
    /\ query.kind = "select"
    /\ Len(query.from) < MaxFrom
    /\ query' = [query EXCEPT !.from = Append(@, source), !.join_src = source]
    /\ out' = NoOutput
    /\ UNCHANGED <<engine, registry>>

\* BaseSelectQuery.switch (lines 113-115) without src: back to the last
\* source; _from[-1] of an empty list is an IndexError.
switch ==
    /\ query.kind = "select"
    /\ IF query.from = <<>>
         THEN /\ out' = Outcome("switch", "IndexError")
              /\ UNCHANGED query
         ELSE /\ query' = [query EXCEPT !.join_src = query.from[Len(query.from)]]
              /\ out' = NoOutput
    /\ UNCHANGED <<engine, registry>>

\* Backref.__set_name__ (relationships.py lines 122-124): __backrefs__ of a
\* class, as <<attribute name, model>> pairs: User.orders and Order.items.
backrefs(c) ==
    CASE Base(c) = "User" -> << <<"orders", "Order">> >>
      [] Base(c) = "Order" -> << <<"items", "Item">> >>
      [] OTHER -> <<>>

\* Lines 151-155: the attribute the joined rows are kept under, the name of
\* the first backref of src whose model dest is a subclass of, else None.
attr_name_of(src, dest) ==
    LET bs == backrefs(src)
        hits == {i \in DOMAIN bs : issubclass(dest, bs[i][2])}
    IN  IF hits = {} THEN Absent
        ELSE bs[CHOOSE i \in hits : \A k \in hits : i <= k][1]

\* Lines 161-165: the places in __fields__ of dest of the fields that
\* reference a field of src (or of a class src derives from).
Referencing(dest, src) ==
    {i \in DOMAIN fields(dest) :
        /\ fields(dest)[i].references # NoExpr
        /\ issubclass(src, fields(dest)[i].references.table)}

\* Lines 161-173: the loop stops at the first such field, and the condition
\* is src.<referenced attribute> == dest.<that field>.
inferred(src, dest) ==
    LET i == CHOOSE i \in Referencing(dest, src) : \A k \in Referencing(dest, src) : i <= k
        field == fields(dest)[i]
    IN  Expr("eq", <<FieldExpr(src, descriptor(field.references).attr_name),
                     FieldExpr(dest, field.attr_name)>>)

Joins(q) == {p \in Classes \X (1..MaxJoins) : p[2] <= Len(q.join[p[1]])}

\* BaseSelectQuery.join (lines 138-180) with src and as_ left out;
\* condition NoExpr stands for None.
join(dest, join_type, condition) ==
    /\ query.kind = "select"
    /\ Cardinality(Joins(query)) < MaxJoins
    /\ UNCHANGED <<engine, registry>>
    /\ LET src == query.join_src
           added(j) == [query EXCEPT !.join[src] = Append(@, j), !.join_src = dest]
       IN  IF src = Absent
             THEN /\ out' = Outcome("join", "AssertionError")
                  /\ UNCHANGED query
           ELSE IF join_type = "CROSS"
             THEN /\ query' = added(Join(attr_name_of(src, dest), dest, join_type, NoExpr))
                  /\ out' = NoOutput
           ELSE IF condition = NoExpr /\ Referencing(dest, src) = {}
             THEN /\ out' = Outcome("join", "RuntimeError")
                  /\ UNCHANGED query
           ELSE /\ query' = added(Join(attr_name_of(src, dest), dest, join_type,
                                       IF condition = NoExpr THEN inferred(src, dest)
                                       ELSE condition))
                /\ out' = NoOutput

\* InsertQuery.returning (lines 320-328) with one class: every field of it.
returning(model) ==
    /\ query.kind = "insert"
    /\ query.returning = <<>>
    /\ query' = [query EXCEPT !.returning =
                    [i \in DOMAIN fields(model) |-> FieldExpr(model, fields(model)[i].attr_name)]]
    /\ out' = NoOutput
    /\ UNCHANGED <<engine, registry>>

\* InsertQuery.returning with an expression: issubclass(expr, Model) of a
\* value that is no class is a TypeError (line 322).
returning_expr(expr) ==
    /\ query.kind = "insert"
    /\ out' = Outcome("returning", "TypeError")
    /\ UNCHANGED <<engine, registry, query>>

\* What the builder gave back: the statement and its arguments, or the
\* exception.
Built(compiled) ==
    [call |-> "build", exc |-> compiled.exc, sql |-> compiled.sql, args |-> compiled.args]

\* The query is handed to the builder: database.query_builder(query).
build ==
    /\ out' = Built(Compile(query))
    /\ UNCHANGED <<engine, registry, query>>

NextBuild ==
    \/ \E value \in Projections : select_value(value)
    \/ \E f \in Filters : filter(f)
    \/ \E source \in Sources : from_(source)
    \/ switch
    \/ \E dest \in Dests, join_type \in {"INNER", "LEFT", "CROSS"},
          condition \in Conditions \cup {NoExpr} : join(dest, join_type, condition)
    \/ \E model \in {"User", "U1"} : returning(model)
    \/ \E expr \in Projections : returning_expr(expr)
    \/ build

SpecBuild == InitBuild /\ [][NextBuild]_vars

\* ------------------------------------------------ claims on the builder
\* The largest placeholder number looked for in a statement.
MaxArgs == 9

\* The scalars of an expression from left to right, depth first.  A literal
\* has none; a field has none of its own, and with `computed` the scalars of
\* the expression a computed field is rendered as are counted in its place.
RECURSIVE Leaves(_, _)
RECURSIVE LeavesOf(_, _)
Leaves(e, computed) ==
    IF ~IsExpr(e) THEN <<e.scalar>>
    ELSE IF e.op = "literal" THEN <<>>
    ELSE IF e.op = "field"
      THEN IF computed /\ descriptor(e).expr # NoExpr
             THEN Leaves(descriptor(e).expr, computed)
             ELSE <<>>
    ELSE LeavesOf(e.args, computed)

LeavesOf(es, computed) ==
    IF es = <<>> THEN <<>>
    ELSE Leaves(Head(es), computed) \o LeavesOf(Tail(es), computed)

\* The scalars of the join conditions met from `model`: each join's
\* condition, then the joins that leave its destination.
RECURSIVE JoinLeaves(_, _, _, _)
RECURSIVE JoinListLeaves(_, _, _, _)
JoinListLeaves(q, joins, depth, computed) ==
    IF joins = <<>> THEN <<>>
    ELSE (IF Head(joins).join_type # "CROSS"
            THEN Leaves(Head(joins).condition, computed) ELSE <<>>)
           \o JoinLeaves(q, Head(joins).dest, depth + 1, computed)
           \o JoinListLeaves(q, Tail(joins), depth, computed)

JoinLeaves(q, model, depth, computed) ==
    IF depth > Cardinality(Classes) THEN <<>>
    ELSE JoinListLeaves(q, q.join[model], depth, computed)

RECURSIVE FromLeaves(_, _, _)
FromLeaves(q, i, computed) ==
    IF i > Len(q.from) THEN <<>>
    ELSE (IF \E k \in 1..(i - 1) : q.from[k] = q.from[i] THEN <<>>
          ELSE JoinLeaves(q, q.from[i], 1, computed))
           \o FromLeaves(q, i + 1, computed)

\* The scalars of a query in traversal order: projections or values, then
\* join conditions, then filters or returning.
QueryLeaves(q, computed) ==
    CASE q.kind = "select" ->
           LeavesOf(q.values, computed) \o FromLeaves(q, 1, computed)
             \o LeavesOf(q.filter, computed)
      [] q.kind = "insert" ->
           LeavesOf([i \in DOMAIN q.values |-> q.values[i][2]], computed)
             \o LeavesOf(q.returning, computed)
      [] q.kind = "delete" -> LeavesOf(q.filter, computed)

IsPlaceholder(piece) == \E k \in 0..MaxArgs : piece = "$" \o ToString(k)

\* The placeholders of a statement in text order.
Placeholders(pieces) == SelectSeq(pieces, IsPlaceholder)

Compiled == out.call = "build" /\ out.exc = "ok"

\* What C14 asks of a compiled statement whose query has the scalars
\* `leaves`.
ArgsInOrder(leaves) ==
    /\ out.args = leaves
    /\ Placeholders(out.sql) = [k \in 1..Len(leaves) |-> "$" \o ToString(k)]

\* C14 as stated: the statement compiled from a query holds exactly the
\* placeholders $1..$n in text order and its arguments are the n scalars of
\* the query in left-to-right, depth-first order, no field reference
\* contributing an argument.
C14_FieldsContributeNothing == Compiled => ArgsInOrder(QueryLeaves(query, FALSE))

\* C14 amended: the statement compiled from a query holds exactly the
\* placeholders $1..$n in text order and its arguments are the n scalars met
\* in the left-to-right, depth-first traversal (projections or values, join
\* conditions, filters or returning), in which a reference to a computed
\* field stands for the expression it is rendered as; literals and
\* references to plain columns contribute nothing.
C14_ArgsInTraversalOrder == Compiled => ArgsInOrder(QueryLeaves(query, TRUE))

\* A select with a projection, a join condition and two filters compiled to
\* five or more arguments.
C14_Witness ==
    /\ Compiled
    /\ query.kind = "select"
    /\ LeavesOf(query.values, TRUE) # <<>>
    /\ FromLeaves(query, 1, TRUE) # <<>>
    /\ Len(query.filter) = 2
    /\ Len(out.args) >= 5

\* ------------------------------------------- rendering one expression
\* The operators emit_op renders, by the number of their operands.
UnaryOps == {"neg", "pos", "invert", "is_null", "is_not_null"}

BinaryOps ==
    {"lt", "le", "eq", "ne", "gt", "ge", "add", "sub", "mul", "div", "mod",
     "lshift", "rshift", "and", "xor", "or"}

\* The operands: a field, a scalar, a literal, a function call and every
\* operator over a field and a scalar.
Operands ==
    {Age, Scalar(2), Literal("NULL"), Expr("abs", <<Age>>)}
      \cup {Expr(op, <<Age>>) : op \in UnaryOps}
      \cup {Expr(op, <<Age, Scalar(1)>>) : op \in BinaryOps}

Expressions ==
    Operands
      \cup {Expr(op, <<a>>) : op \in UnaryOps, a \in Operands}
      \cup {Expr(op, <<a, b>>) : op \in BinaryOps, a \in Operands, b \in Operands}

InitEmit ==
    /\ InitEngine
    /\ InitRegistry
    /\ query \in {[kind |-> "expr", expr |-> e] : e \in Expressions}
    /\ out = NoOutput

Rendered(emitted) ==
    [call |-> "emit", exc |-> emitted.exc, sql |-> emitted.sql, args |-> emitted.args]

\* emit (pgbuilder.py lines 184-188) of the expression with a fresh Args.
render ==
    /\ query.kind = "expr"
    /\ out.call = "none"
    /\ out' = Rendered(emit(query.expr, <<>>))
    /\ UNCHANGED <<engine, registry, query>>

NextEmit == render

SpecEmit == InitEmit /\ [][NextEmit]_vars

\* An expression that emit_op renders.
IsOperator(e) == IsExpr(e) /\ expr_emitter_map(e.op).how = "op"

\* The tier every operator missing from the table is given.
DefaultTier == CHOOSE i \in DOMAIN precedence : Absent \in precedence[i]

\* Operand `arg` binds strictly looser than operator expression e: its tier
\* comes later in the table.
Looser(arg, e) == get_precedence(arg) > get_precedence(e)

\* The text of an operator expression whose operands have the texts
\* `operands`, each in parentheses exactly when it binds strictly looser.
Grouped(e, operands) ==
    Piece(expr_emitter_map(e.op).prefix)
      \o Joined([i \in DOMAIN operands |->
                   IF Looser(e.args[i], e)
                     THEN <<"(">> \o operands[i].sql \o <<")">>
                     ELSE operands[i].sql],
                expr_emitter_map(e.op).infix)
      \o Piece(expr_emitter_map(e.op).suffix)

\* C15: in the text of a rendered operator expression an operand is in
\* parentheses if and only if its tier binds strictly looser than the tier of
\* the operator; an operand of the same or a tighter tier and a scalar never
\* are; an operator the table lacks is in the default tier.
C15_ParenthesizedIffLooser ==
    (out.call = "emit" /\ IsOperator(query.expr)) =>
        /\ out.sql = Grouped(query.expr, emit_each(query.expr.args, <<>>))
        /\ \A i \in DOMAIN query.expr.args :
              ~IsExpr(query.expr.args[i]) => ~Looser(query.expr.args[i], query.expr)
        /\ ~InTable(query.expr.op) => get_precedence(query.expr) = DefaultTier

\* (age + 1) * (age # 1) has been rendered: the sum, of a looser tier than
\* the product, is in parentheses and so is the operand of an operator the
\* table lacks.
C15_Witness ==
    /\ out.call = "emit"
    /\ query.expr = Expr("mul", <<Expr("add", <<Age, Scalar(1)>>),
                                  Expr("xor", <<Age, Scalar(1)>>)>>)
    /\ Text(out.sql) = "(\"user\".\"age\" + $1) * (\"user\".\"age\" # $2)"

\* The places of a statement that name a table: the sources of the FROM
\* clause and the destinations of its joins.
TablePlaces(pieces) ==
    {i \in DOMAIN pieces : \E c \in Classes : pieces[i] = quote(table_name(c))}

\* The alias an entry is given two pieces on ("AS" follows the separating
\* blank), or the table itself.
AliasAt(pieces, i) ==
    IF /\ i + 2 <= Len(pieces)
       /\ \E c \in Classes : pieces[i + 2] = "AS " \o quote(alias_name(c))
      THEN pieces[i + 2]
      ELSE "AS " \o pieces[i]

\* C16: the FROM clause of a compiled select never holds two entries, source
\* or join, with the same table name and alias.
C16_FromEntriesDistinct ==
    (Compiled /\ query.kind = "select") =>
        \A i, k \in TablePlaces(out.sql) :
            (out.sql[i] = out.sql[k] /\ AliasAt(out.sql, i) = AliasAt(out.sql, k)) => i = k

\* The text after WHERE of a compiled statement, <<>> when it has no WHERE.
RECURSIVE After(_, _)
After(pieces, piece) ==
    IF pieces = <<>> THEN <<>>
    ELSE IF Head(pieces) = piece THEN Tail(pieces)
    ELSE After(Tail(pieces), piece)

HasWhere == \E i \in DOMAIN out.sql : out.sql[i] = " WHERE "

\* A filter binds looser than AND: inside a conjunction it has to be put in
\* parentheses to stay one conjunct.
LooserThanAnd(f) == get_precedence(f) > precedence_map("and")

\* The conjunction of the filters, each rendered as its own conjunct.
Conjunction(q, filters) ==
    Joined([i \in DOMAIN filters |->
              IF Len(filters) > 1 /\ LooserThanAnd(q.filter[i])
                THEN <<"(">> \o filters[i].sql \o <<")">>
                ELSE filters[i].sql],
           " AND ")

\* The arguments rendered before the filters of a compiled statement.
BeforeFilters(q) ==
    SubSeq(out.args, 1, Len(out.args) - Len(LeavesOf(q.filter, TRUE)))

\* C17: the WHERE condition of a compiled select or delete is the
\* conjunction of its filters, each filter one conjunct whatever its
\* top-level operator, and without filters there is no WHERE.
C17_WhereIsConjunction ==
    (Compiled /\ query.kind \in {"select", "delete"}) =>
        /\ HasWhere <=> query.filter # <<>>
        /\ After(out.sql, " WHERE ")
             = Conjunction(query, emit_each(query.filter, BeforeFilters(query)))

\* The text of the projections of a compiled select (between SELECT and
\* FROM or WHERE) or of the RETURNING list of a compiled insert.
RECURSIVE Before(_, _)
Before(pieces, stops) ==
    IF pieces = <<>> THEN <<>>
    ELSE IF Head(pieces) \in stops THEN <<>>
    ELSE <<Head(pieces)>> \o Before(Tail(pieces), stops)

ProjectionText ==
    IF query.kind = "select"
      THEN Before(After(out.sql, "SELECT "), {" FROM ", " WHERE "})
      ELSE After(out.sql, " RETURNING ")

Projected == IF query.kind = "select" THEN query.values ELSE query.returning

\* How many pieces of the text are an AS suffix.
Suffixes(pieces) ==
    Cardinality({i \in DOMAIN pieces :
                    \E c \in Classes, f \in {"id", "age", "next_age", "x", "y"} :
                        pieces[i] \in {" AS " \o quote(f),
                                       " AS " \o quote(alias_name(c) \o "." \o f)}})

\* C18: in a compiled select, and in the RETURNING list of a compiled
\* insert, a projection is followed by AS only when its expression carries
\* an explicit alias; a bare field reference has no AS suffix.
C18_AsOnlyWithAlias ==
    (Compiled /\ query.kind \in {"select", "insert"}) =>
        Suffixes(ProjectionText)
          = Cardinality({i \in DOMAIN Projected : Projected[i].alias # Absent})

\* C19: a join without a condition that is no cross join, to a destination
\* with no field or with more than one field referencing the source, raises
\* and adds no join to the query.
C19_NoGuess ==
    [][\A dest \in Dests, join_type \in {"INNER", "LEFT"} :
          ( /\ query.kind = "select"
            /\ query.join_src # Absent
            /\ Cardinality(Referencing(dest, query.join_src)) # 1
            /\ join(dest, join_type, NoExpr) )
          => (out'.call = "join" /\ UNCHANGED query)]_vars

\* ------------------------------------------------------ unwrap_models
\* The rows a select over User joined to Order gives back: how many, and
\* the primary keys they carry.
MaxRows == 3

PKs == {1, 2}

RowKeys == {"user.id", "order.id"}

Rows == [RowKeys -> PKs]

RowLists == UNION {[1..n -> Rows] : n \in 0..MaxRows}

\* The attributes an instance can hold: the columns of its fields and the
\* collections of its joins.
Columns == {"id", "user_id", "buyer_id"}

Collections == {"orders"}

Missing == "MISSING"

\* _join of SelectQuery(User).from_(User).join(Order, "left").
HydrateJoins ==
    [c \in Classes |->
        IF c = "User"
          THEN <<Join(attr_name_of("User", "Order"), "Order", "LEFT",
                      inferred("User", "Order"))>>
          ELSE <<>>]

\* Lines 216-221: the row keys of the primary key of a model.
get_pk_fields(model) ==
    LET pks == SelectSeq(fields(model), LAMBDA field : field.primary_key)
    IN  [i \in DOMAIN pks |-> alias_name(model) \o "." \o pks[i].attr_name]

\* Lines 223-230: the source, then the destination of every join.
models(source, joins) ==
    <<source>> \o [i \in DOMAIN joins[source] |-> joins[source][i].dest]

\* Lines 232-233.
get_pk_from_row(model, row) ==
    [i \in DOMAIN get_pk_fields(model) |-> row[get_pk_fields(model)[i]]]

\* Lines 235-239: the joins that fill a collection, by destination.
joins_by_dest(joins, source, dest) ==
    SelectSeq([i \in DOMAIN joins[source] |-> <<source, joins[source][i]>>],
              LAMBDA p : p[2].dest = dest /\ p[2].attr_name # Absent)

\* The instances of the store are named by model and primary key.
Refs == {"User", "Order"} \X {<<pk>> : pk \in PKs}

ref(model, row) == <<model, get_pk_from_row(model, row)>>

\* Model.__init__ (base.py lines 63-72): __data__ starts empty, no column
\* set and no collection begun.
NewInstance ==
    [made |-> TRUE, columns |-> [a \in Columns |-> Missing],
     collections |-> [a \in Collections |-> <<>>]]

NoInstance == [NewInstance EXCEPT !.made = FALSE]

\* Lines 241-243 and the start of `result`.
NoStore == [store |-> [r \in Refs |-> NoInstance], result |-> <<>>, exc |-> "ok"]

\* Lines 248-254 for the models `ms`: the instance of each is looked up by
\* its primary key and made when the store lacks it.  model(__engine__=engine)
\* raises KeyError in Model.__init__ (base.py lines 68-71) unless the class
\* has a field named __engine__.
RECURSIVE instances(_, _, _, _, _)
instances(st, ms, source, row, engine_field) ==
    IF ms = <<>> THEN st
    ELSE IF st.store[ref(Head(ms), row)].made
      THEN instances(st, Tail(ms), source, row, engine_field)
    ELSE IF ~engine_field THEN [st EXCEPT !.exc = "KeyError"]
    ELSE instances([st EXCEPT !.store[ref(Head(ms), row)] = NewInstance,
                              !.result = IF Head(ms) = source
                                           THEN Append(@, ref(Head(ms), row))
                                           ELSE @],
                   Tail(ms), source, row, engine_field)

\* Lines 256-261: every column of the row is set on the instance of its
\* model.
RECURSIVE set_columns(_, _, _)
set_columns(st, ms, row) ==
    IF ms = <<>> THEN st
    ELSE set_columns(
           [st EXCEPT !.store[ref(Head(ms), row)].columns =
               [a \in Columns |->
                   IF alias_name(Head(ms)) \o "." \o a \in DOMAIN row
                     THEN row[alias_name(Head(ms)) \o "." \o a]
                     ELSE @[a]]],
           Tail(ms), row)

\* Lines 266-273 for one join: the instance is appended to the collection
\* of the instance of src.
appended(st, src, attr_name, row, instance) ==
    [st EXCEPT !.store[ref(src, row)].collections[attr_name] = Append(@, instance)]

\* Lines 263-273: every instance of the row is appended to the collection
\* of each join that leads to its model.
RECURSIVE append_joined(_, _, _, _)
append_joined(st, js, row, instance) ==
    IF js = <<>> THEN st
    ELSE append_joined(appended(st, Head(js)[1], Head(js)[2].attr_name, row, instance),
                       Tail(js), row, instance)

RECURSIVE append_each(_, _, _, _, _)
append_each(st, ms, source, joins, row) ==
    IF ms = <<>> THEN st
    ELSE append_each(append_joined(st, joins_by_dest(joins, source, Head(ms)), row,
                                   ref(Head(ms), row)),
                     Tail(ms), source, joins, row)

\* Lines 245-273: one turn of the loop over the rows.
unwrap_made(st, source, joins, row) ==
    IF st.exc # "ok" THEN st
    ELSE append_each(set_columns(st, models(source, joins), row),
                     models(source, joins), source, joins, row)

unwrap_row(st, source, joins, row, engine_field) ==
    unwrap_made(instances(st, models(source, joins), source, row, engine_field),
                source, joins, row)

\* unwrap_models (query.py lines 207-275).
RECURSIVE unwrap_rows(_, _, _, _, _)
unwrap_rows(st, source, joins, rows, engine_field) ==
    IF rows = <<>> \/ st.exc # "ok" THEN st
    ELSE unwrap_rows(unwrap_row(st, source, joins, Head(rows), engine_field),
                     source, joins, Tail(rows), engine_field)

unwrap_models(source, joins, rows, engine_field) ==
    unwrap_rows(NoStore, source, joins, rows, engine_field)

\* The rows of a query and whether the entity classes declare a field named
\* __engine__.
InitHydrate ==
    /\ InitEngine
    /\ InitRegistry
    /\ query \in {[kind |-> "rows", rows |-> rows, engine_field |-> e] :
                    rows \in RowLists, e \in BOOLEAN}
    /\ out = NoOutput

Unwrapped(st) ==
    [call |-> "unwrap", exc |-> st.exc, result |-> st.result, store |-> st.store]

\* ModelSelectQuery.unwrap (lines 308-311): the rows are handed to
\* unwrap_models.
unwrap ==
    /\ query.kind = "rows"
    /\ out.call = "none"
    /\ out' = Unwrapped(unwrap_models("User", HydrateJoins, query.rows, query.engine_field))
    /\ UNCHANGED <<engine, registry, query>>

NextHydrate == unwrap

SpecHydrate == InitHydrate /\ [][NextHydrate]_vars

\* The values of a sequence, each at the place it comes first.
RECURSIVE Distinct(_)
Distinct(s) ==
    IF s = <<>> THEN <<>>
    ELSE LET front == Distinct(SubSeq(s, 1, Len(s) - 1))
         IN  IF \E i \in DOMAIN front : front[i] = s[Len(s)] THEN front
             ELSE Append(front, s[Len(s)])

\* The children the rows give a parent, in the order the rows came.
ChildrenOf(parent) ==
    LET own == SelectSeq(query.rows, LAMBDA row : ref("User", row) = parent)
    IN  Distinct([i \in DOMAIN own |-> ref("Order", own[i])])

\* C20: hydrating the rows of a parent joined to a child gives one parent
\* instance for each distinct parent primary key, and the collection of a
\* parent holds one entry for each distinct child primary key of its rows,
\* in the order the rows came.
C20_OneEntryPerChild ==
    (out.call = "unwrap" /\ out.exc = "ok") =>
        /\ out.result = Distinct([i \in DOMAIN query.rows |-> ref("User", query.rows[i])])
        /\ \A i \in DOMAIN out.result :
              out.store[out.result[i]].collections["orders"] = ChildrenOf(out.result[i])

\* ------------------------------------------- expression nodes in use
\* The expression objects a program holds on to: the FieldExpr that
\* Field.__get__ (base.py lines 171-178) makes once for a class and hands
\* out at every read of User.id and of User.age, and one Expr kept in a
\* variable, s = User.age + 7 (emit_field reads nothing of the alias of the
\* field inside it).
Nodes == {"id", "age", "s"}

AliasNames == {"x", "y"}

field_exprs ==
    [n \in Nodes |->
        IF n = "s" THEN Expr("add", <<Age, Scalar(7)>>) ELSE FieldExpr("User", n)]

InitShared ==
    /\ InitEngine
    /\ InitRegistry
    /\ query = [kind |-> "shared", field_exprs |-> field_exprs, values |-> <<>>]
    /\ out = NoOutput

\* Expr.alias (expr.py lines 18-23) on node n: self.__alias__ = alias, and
\* the node itself is returned.
alias_node(n, name) ==
    /\ query.kind = "shared"
    /\ query' = [query EXCEPT !.field_exprs[n] = alias(@, name)]
    /\ out' = NoOutput
    /\ UNCHANGED <<engine, registry>>

\* BaseSelectQuery.select (query.py lines 100-107) with node n: the query
\* keeps the object, not a copy.
select_node(n) ==
    /\ query.kind = "shared"
    /\ Len(query.values) < MaxFrom
    /\ query' = [query EXCEPT !.values = Append(@, n)]
    /\ out' = NoOutput
    /\ UNCHANGED <<engine, registry>>

\* The select over User with the nodes as they are now.
Resolved(q) ==
    [SelectQuery EXCEPT !.values = [i \in DOMAIN q.values |-> q.field_exprs[q.values[i]]],
                        !.from = <<"User">>]

\* database.query_builder(query) for the select of the nodes.
build_shared ==
    /\ query.kind = "shared"
    /\ out' = Built(Compile(Resolved(query)))
    /\ UNCHANGED <<engine, registry, query>>

NextShared ==
    \/ \E n \in Nodes, name \in AliasNames : alias_node(n, name)
    \/ \E n \in Nodes : select_node(n)
    \/ build_shared

SpecShared == InitShared /\ [][NextShared]_vars

\* C21: alias() changes nothing of the node it is called on, so the select
\* that holds the node renders after the call as it did before.
C21_AliasLeavesNode ==
    [][\A n \in Nodes, name \in AliasNames :
          alias_node(n, name) =>
              /\ query'.field_exprs[n] = query.field_exprs[n]
              /\ Built(Compile(Resolved(query'))) = Built(Compile(Resolved(query)))]_vars

\* C22: when in_context has returned or raised and the task runs no other
\* borrowed awaitable, its state is its own again: not inherited, with its
\* own lock and stack and without the connection of the lender.
C22_BorrowerRestored ==
    [][\A t \in Tasks :
          (InContextReturn(t) /\ frames'[t] = <<>>) =>
              /\ ~state'[t].inherited
              /\ state'[t].lock = t
              /\ state'[t].stack = t
              /\ state'[t].connection = None]_vars

\* C23: leaving the async-with block of a handle that an explicit commit or
\* rollback has completed sends nothing to the driver, pops nothing,
\* releases nothing and raises nothing.
C23_ExitAfterExplicitEnd ==
    [][\A h \in Handles, exc \in BOOLEAN :
          (tc[h].completed /\ aexit(Solo, h, exc)) =>
              /\ res' = [task |-> Solo, op |-> "aexit", exc |-> "ok"]
              /\ UNCHANGED <<deques, released, tc>>]_vars

\* The block of handle h is being left by task t without an explicit commit
\* or rollback: its transaction is open and it is the topmost of the stack.
Leaving(t, h) ==
    /\ tc[h].transaction = "open"
    /\ ~tc[h].completed
    /\ Stack(t) # <<>>
    /\ Top(Stack(t)) = h

\* C24: leaving a block that was not explicitly finalized sends one
\* operation to the driver while holding the lock, commit when the block
\* ended without an exception and rollback when it raised, and the handle is
\* popped once that operation is over, whether it raised or not.
C24_ExitFinalizes ==
    [][\A h \in Handles, exc \in BOOLEAN :
         /\ (Leaving(Solo, h) /\ aexit(Solo, h, exc))
              => /\ pc'[Solo].at = (IF exc THEN "rollback" ELSE "commit")
                 /\ pc'[Solo].h = h
                 /\ tc'[h].transaction = pc'[Solo].at
                 /\ Acquired(locks'[state[Solo].lock], Solo)
                 /\ UNCHANGED deques
         /\ (pc[Solo].op = "aexit" /\ pc[Solo].h = h
                /\ pc[Solo].at \in {"commit", "rollback"} /\ FinalizeResume(Solo))
              => Stack(Solo)' = Pop(Stack(Solo))
      ]_vars

\* ------------------------------------------------ BackrefAttr.__call__
\* The tasks that ask for one backref collection of one model instance, and
\* the futures their loads create.
NumCallers == 3

Callers == 1..NumCallers

Futures == 1..NumCallers

\* A caller that has not called yet.
NotCalled == [at |-> "idle", f |-> None]

\* inst.__data__ holds no entry for the attribute, no future exists.
InitLoad ==
    /\ InitEngine
    /\ InitRegistry
    /\ query = [kind |-> "backref",
                data |-> None,
                futures |-> [f \in Futures |-> "unborn"],
                callers |-> [c \in Callers |-> NotCalled]]
    /\ out = NoOutput

\* __call__ (relationships.py lines 73-89) up to its first suspension, the
\* engine given.  With an entry and without refresh the caller awaits the
\* future of the entry (and goes on at once when that is done); otherwise
\* it makes a future, stores it as the entry and starts engine.execute.
call(c, refresh) ==
    /\ query.kind = "backref"
    /\ query.callers[c] = NotCalled
    /\ out' = NoOutput
    /\ UNCHANGED <<engine, registry>>
    /\ IF ~refresh /\ query.data # None
         THEN query' = [query EXCEPT !.callers[c] =
                           IF query.futures[query.data] = "result"
                             THEN [at |-> "returned", f |-> query.data]
                             ELSE [at |-> "await", f |-> query.data]]
         ELSE \E f \in Futures :
                /\ query.futures[f] = "unborn"
                /\ \A g \in Futures : g < f => query.futures[g] # "unborn"
                /\ query' = [query EXCEPT !.data = f,
                                          !.futures[f] = "pending",
                                          !.callers[c] = [at |-> "execute", f |-> f]]

\* Lines 90-92: engine.execute has returned; the future gets the result.
execute_returned(c) ==
    /\ query.kind = "backref"
    /\ query.callers[c].at = "execute"
    /\ query' = [query EXCEPT !.futures[query.callers[c].f] = "result",
                              !.callers[c].at = "returned"]
    /\ out' = NoOutput
    /\ UNCHANGED <<engine, registry>>

\* Lines 93-95: engine.execute has raised; the entry is deleted (whichever
\* future it holds) and the exception raised again.  The future is left as
\* it is.
execute_raised(c) ==
    /\ query.kind = "backref"
    /\ query.callers[c].at = "execute"
    /\ query' = [query EXCEPT !.data = None, !.callers[c].at = "raised"]
    /\ out' = NoOutput
    /\ UNCHANGED <<engine, registry>>

\* Line 86: the awaited future is done and the waiting caller goes on.
await_done(c) ==
    /\ query.kind = "backref"
    /\ query.callers[c].at = "await"
    /\ query.futures[query.callers[c].f] = "result"
    /\ query' = [query EXCEPT !.callers[c].at = "returned"]
    /\ out' = NoOutput
    /\ UNCHANGED <<engine, registry>>

NextLoad ==
    \E c \in Callers :
        \/ \E refresh \in BOOLEAN : call(c, refresh)
        \/ execute_returned(c)
        \/ execute_raised(c)
        \/ await_done(c)

\* The driver answers every query and the event loop runs every task whose
\* future is done.
FairLoad ==
    \A c \in Callers :
        /\ WF_vars(execute_returned(c) \/ execute_raised(c))
        /\ WF_vars(await_done(c))

SpecLoadFair == InitLoad /\ [][NextLoad]_vars /\ FairLoad

\* C25: every caller waiting on a load in flight completes in the end, also
\* when the query of that load fails.
C25_WaitersComplete ==
    \A c \in Callers :
        (query.callers[c].at = "await") ~> (query.callers[c].at \in {"returned", "raised"})

\* C26: compiling a Select ends with SQL text or an error of the builder's
\* own, never by running out of stack, whatever the join graph is.
C26_CompileTerminates ==
    (out.call = "build" /\ query.kind = "select") => out.exc # "RecursionError"

\* ------------------------------------------------- function calls
\* CallExpr.__init__ (expr.py lines 173-176) for the call name(*args): the
\* tuple of the arguments is handed on to Expr.__init__ as one positional
\* argument, so the expression has a single operand, that tuple, a value
\* that is no Expr.
CallExpr(name, args, schema) ==
    [op |-> "call", args |-> <<Scalar(args)>>, alias |-> Absent,
     schema |-> schema, name |-> name]

\* FuncProxy.__call__ (expr.py lines 191-192) of the proxy FuncFactory gives
\* for a name.
FuncProxy(name, schema, args) == CallExpr(name, args, schema)

MaxCallArgs == 2

\* The arguments of the calls: fields, a scalar, a literal and an operator.
CallOperands ==
    {Age, FieldExpr("User", "id"), Scalar(3), Literal("NULL"),
     Expr("add", <<Age, Scalar(1)>>)}

CallArguments ==
    {<<>>} \cup {<<a>> : a \in CallOperands}
           \cup {<<a, b>> : a \in CallOperands, b \in CallOperands}

Calls ==
    {FuncProxy(name, schema, args) :
        name \in {"lower", "coalesce"}, schema \in {Absent, "pg_catalog"},
        args \in CallArguments}

InitCall ==
    /\ InitEngine
    /\ InitRegistry
    /\ query \in {[kind |-> "expr", expr |-> e] : e \in Calls}
    /\ out = NoOutput

SpecCall == InitCall /\ [][NextEmit]_vars

\* The arguments a call expression was built with.
Arguments(e) == e.args[1].scalar

\* C27: fn.name(a1, ..., an), with or without a schema, renders as
\* name(r1, ..., rn), every ri the rendering of ai: an expression as its SQL
\* text, a scalar as a placeholder of its own with the scalar appended to
\* the argument list.
C27_CallRendersArguments ==
    (out.call = "emit" /\ query.expr.op = "call") =>
        LET rendered == emit_each(Arguments(query.expr), <<>>)
            f == IF query.expr.schema # Absent
                   THEN query.expr.schema \o "." \o query.expr.name
                   ELSE query.expr.name
        IN  /\ out.exc = "ok"
            /\ out.sql = <<f, "(">>
                           \o Joined([i \in DOMAIN rendered |-> rendered[i].sql], ", ")
                           \o <<")">>
            /\ out.args = (IF rendered = <<>> THEN <<>>
                           ELSE rendered[Len(rendered)].args)

\* The unary signs.
Signs == {"neg", "pos"}

\* An operator expression over two operands.
IsBinary(e) == IsOperator(e) /\ Len(e.args) = 2

\* Operand i of operator expression e has to stay a group of its own in the
\* text: the right operand of a binary operator that is itself a binary
\* operator of the same tier, or a unary sign under a unary sign.
KeepsGroup(e, i) ==
    \/ /\ IsBinary(e)
       /\ i = 2
       /\ IsBinary(e.args[2])
       /\ get_precedence(e.args[2]) = get_precedence(e)
    \/ /\ e.op \in Signs
       /\ IsExpr(e.args[i])
       /\ e.args[i].op \in Signs

\* C28: the text of a rendered operator expression keeps the grouping of the
\* tree within one tier: a right operand that is a binary expression of the
\* operator's own tier and a unary sign under a unary sign are in
\* parentheses.
C28_SameTierGroupingKept ==
    (out.call = "emit" /\ out.exc = "ok" /\ IsOperator(query.expr)) =>
        LET e == query.expr
            operands == emit_each(e.args, <<>>)
        IN  out.sql =
              Piece(expr_emitter_map(e.op).prefix)
                \o Joined([i \in DOMAIN operands |->
                             IF Looser(e.args[i], e) \/ KeepsGroup(e, i)
                               THEN <<"(">> \o operands[i].sql \o <<")">>
                               ELSE operands[i].sql],
                          expr_emitter_map(e.op).infix)
                \o Piece(expr_emitter_map(e.op).suffix)
====
